---- MODULE Spec2Model ----
(***************************************************************************)
(* Heap-file layer of heapfile.C: createHeapFile, HeapFile (open, close,   *)
(* getRecord), HeapFileScan (startScan, scanNext, markScan, resetScan,     *)
(* getRecord, deleteRecord, endScan) and InsertFileScan (insertRecord),    *)
(* driven against a mock buffer pool, file layer and slotted page.         *)
(*                                                                         *)
(* A pointer to a page is modelled by the number of the page whose frame   *)
(* it points to: NULL is 0, an uninitialised pointer is WILD.  Every call  *)
(* made to a collaborator by one operation is appended to trace, the log   *)
(* of the mock; trace is emptied when the next operation starts.           *)
(***************************************************************************)
EXTENDS Integers, Sequences, FiniteSets, TLC

\* ---------------------------------------------------------------- bounds
\* Payload of a data page in bytes (PAGESIZE - DPFIXED, scaled down).
PageCap == 8
\* insertRecord calls that may return a RID, over a run of Spec or SpecErr.
MaxInserts == 2
\* deleteRecord calls, over the whole run.
MaxDeletes == 2
\* Instances opened, over a run of Spec or SpecErr.
MaxOpens == 2
\* createHeapFile calls, over the whole run.
MaxCreates == 1
\* insertRecord calls that may return a RID, over a run of SpecGrow.
MaxGrow == 4
\* Instances opened, over a run of SpecGrow.
MaxSessions == 3
\* Collaborator calls the mock makes fail, over the whole run.
MaxFaults == 1
\* Positions in an operation's calls at which the mock can make one fail.
MaxFaultPos == 6
\* createHeapFile calls on a file that exists, over a run of SpecCreate.
MaxRecreates == 2
\* startScan calls with arbitrary arguments made on one scan, in SpecStart.
MaxScans == 2
\* Width in bits of an int (scaled down).
IntBits == 3

\* ------------------------------------------------------------- constants
NULL == 0
WILD == 0 - 1
UNSET == 0 - 2
IntSize == 4
NULLRID == [pageNo |-> 0 - 1, slotNo |-> 0 - 1]
\* Length stored in a slot that holds no record.
EMPTYSLOT == 0 - 1
\* Next-page value of the last page of a chain.
NOPAGE == 0 - 1

\* Records offered to insertRecord: a length and the integer at offset 0.
Records ==
  { [length |-> IntSize, attr |-> 1],
    [length |-> 2 * IntSize, attr |-> 0] }
BigRecord == [length |-> PageCap + 1, attr |-> 0]

\* Statuses that are signals between the page and the heap file, not failures.
Signals == {"OK", "NOSPACE", "NORECORDS", "ENDOFPAGE"}

\* ------------------------------------------------------ the slotted page
\* A page is [next, slots]; slots[i] is the record in slot i-1 or NoRec.
NoRec == [length |-> EMPTYSLOT, attr |-> 0]

PageInit == [next |-> NOPAGE, slots |-> <<>>]

RECURSIVE SumLen(_)
SumLen(slots) ==
  IF slots = <<>> THEN 0
  ELSE (IF Head(slots) = NoRec THEN 0 ELSE Head(slots).length) + SumLen(Tail(slots))

LiveSlots(pg) == { i \in 1..Len(pg.slots) : pg.slots[i] # NoRec }

Min(S) == CHOOSE x \in S : \A y \in S : x <= y

\* firstRecord: the first slot in use, or NORECORDS.
PageFirstRecord(pg, pageNo) ==
  IF LiveSlots(pg) = {} THEN [st |-> "NORECORDS", rid |-> NULLRID]
  ELSE [st |-> "OK", rid |-> [pageNo |-> pageNo, slotNo |-> Min(LiveSlots(pg)) - 1]]

\* nextRecord: the first slot in use after curRid.slotNo, or ENDOFPAGE.
PageNextRecord(pg, curRid, pageNo) ==
  LET later == { i \in LiveSlots(pg) : i - 1 > curRid.slotNo }
  IN IF later = {} THEN [st |-> "ENDOFPAGE", rid |-> NULLRID]
     ELSE [st |-> "OK", rid |-> [pageNo |-> pageNo, slotNo |-> Min(later) - 1]]

\* getRecord: the record of a slot in use, or INVALIDSLOTNO.
PageGetRecord(pg, rid) ==
  IF rid.slotNo + 1 \in LiveSlots(pg)
  THEN [st |-> "OK", rec |-> pg.slots[rid.slotNo + 1]]
  ELSE [st |-> "INVALIDSLOTNO", rec |-> NoRec]

\* insertRecord: NOSPACE when the record does not fit in the free bytes;
\* otherwise the first unused slot, or a new slot at the end.
PageInsertRecord(pg, rec, pageNo) ==
  IF rec.length > PageCap - SumLen(pg.slots)
  THEN [st |-> "NOSPACE", rid |-> NULLRID, pg |-> pg]
  ELSE LET free == { i \in 1..Len(pg.slots) : pg.slots[i] = NoRec }
           i == IF free = {} THEN Len(pg.slots) + 1 ELSE Min(free)
           slots == IF free = {} THEN Append(pg.slots, rec)
                    ELSE [pg.slots EXCEPT ![i] = rec]
       IN [st |-> "OK", rid |-> [pageNo |-> pageNo, slotNo |-> i - 1],
           pg |-> [pg EXCEPT !.slots = slots]]

RECURSIVE Trim(_)
Trim(slots) ==
  IF slots # <<>> /\ slots[Len(slots)] = NoRec
  THEN Trim(SubSeq(slots, 1, Len(slots) - 1))
  ELSE slots

\* deleteRecord: frees the slot (trailing unused slots are dropped), or
\* INVALIDSLOTNO when the slot holds no record.
PageDeleteRecord(pg, rid) ==
  IF rid.slotNo + 1 \in LiveSlots(pg)
  THEN [st |-> "OK",
        pg |-> [pg EXCEPT !.slots = Trim([pg.slots EXCEPT ![rid.slotNo + 1] = NoRec])]]
  ELSE [st |-> "INVALIDSLOTNO", pg |-> pg]

\* ----------------------------------------------------------------- state
VARIABLES
  fileExists,     \* db: the file has been created
  openCnt,        \* db: openFile calls not yet matched by closeFile
  hdr,            \* FileHdrPage: pageCnt, recCnt, firstPage, lastPage
  pages,          \* pages[p]: content of page p of the file (p = 1 is the header)
  pinCnt,         \* buffer pool: pin count of each page
  kind,           \* class of the live instance, "none" or "crashed"
  headerPage, headerPageNo, hdrDirtyFlag,
  curPage, curPageNo, curDirtyFlag, curRec,
  markedPageNo, markedRec,
  filter, offset, length, type, op,
  trace,          \* collaborator calls of the last operation
  ret, outRid,    \* what the last operation returned
  lastOp,         \* name of the last operation
  hist            \* observations of the test harness (see HistInit)

prog == <<fileExists, openCnt, hdr, pages, pinCnt, headerPage, headerPageNo,
          hdrDirtyFlag, curPage, curPageNo, curDirtyFlag, curRec,
          markedPageNo, markedRec, filter, offset, length, type, op,
          trace, ret, outRid>>
vars == <<prog, kind, lastOp, hist>>

\* The program state as one record, so that a handler is a function on it.
\* st is the status of the last collaborator call.
Cur ==
  [fileExists |-> fileExists, openCnt |-> openCnt, hdr |-> hdr, pages |-> pages,
   pinCnt |-> pinCnt, headerPage |-> headerPage, headerPageNo |-> headerPageNo,
   hdrDirtyFlag |-> hdrDirtyFlag, curPage |-> curPage, curPageNo |-> curPageNo,
   curDirtyFlag |-> curDirtyFlag, curRec |-> curRec,
   markedPageNo |-> markedPageNo, markedRec |-> markedRec,
   filter |-> filter, offset |-> offset, length |-> length, type |-> type,
   op |-> op, trace |-> <<>>, st |-> "OK", ret |-> "OK", outRid |-> NULLRID]

Set(s) ==
  /\ fileExists' = s.fileExists /\ openCnt' = s.openCnt /\ hdr' = s.hdr
  /\ pages' = s.pages /\ pinCnt' = s.pinCnt /\ headerPage' = s.headerPage
  /\ headerPageNo' = s.headerPageNo /\ hdrDirtyFlag' = s.hdrDirtyFlag
  /\ curPage' = s.curPage /\ curPageNo' = s.curPageNo
  /\ curDirtyFlag' = s.curDirtyFlag /\ curRec' = s.curRec
  /\ markedPageNo' = s.markedPageNo /\ markedRec' = s.markedRec
  /\ filter' = s.filter /\ offset' = s.offset /\ length' = s.length
  /\ type' = s.type /\ op' = s.op
  /\ trace' = s.trace /\ ret' = s.ret /\ outRid' = s.outRid

\* ------------------------------------------- the mock collaborators
\* f is the position in trace of the one call the mock makes fail (0: none).
Inj(s, f) == f = Len(s.trace) + 1

IsPage(s, p) == p \in 1..Len(s.pages)
Pinned(s, p) == IsPage(s, p) /\ s.pinCnt[p] > 0

Ev(call, page, dirty, pinned, st) ==
  [call |-> call, page |-> page, dirty |-> dirty, pinned |-> pinned, st |-> st]

Log(s, e) == [s EXCEPT !.trace = Append(@, e), !.st = e.st]

\* bufMgr->readPage(file, pageNo, page): pins pageNo.
ReadPage(s, pageNo, f) ==
  LET st == IF Inj(s, f) THEN "UNIXERR"
            ELSE IF ~IsPage(s, pageNo) THEN "BADPAGENO" ELSE "OK"
      s1 == Log(s, Ev("readPage", pageNo, FALSE, Pinned(s, pageNo), st))
  IN IF st = "OK" THEN [s1 EXCEPT !.pinCnt[pageNo] = @ + 1] ELSE s1

\* Number of the page the next allocPage returns.
NewPageNo(s) == Len(s.pages) + 1

\* bufMgr->allocPage(file, pageNo, page): a new page of the file, pinned.
AllocPage(s, f) ==
  LET st == IF Inj(s, f) THEN "UNIXERR" ELSE "OK"
      s1 == Log(s, Ev("allocPage", NewPageNo(s), FALSE, FALSE, st))
  IN IF st = "OK"
     THEN [s1 EXCEPT !.pages = Append(@, [next |-> 0, slots |-> <<>>]),
                     !.pinCnt = Append(@, 1)]
     ELSE s1

\* bufMgr->unPinPage(file, pageNo, dirty): PAGENOTPINNED when it is not pinned.
UnPinPage(s, pageNo, dirty, f) ==
  LET st == IF Inj(s, f) THEN "UNIXERR"
            ELSE IF ~Pinned(s, pageNo) THEN "PAGENOTPINNED" ELSE "OK"
      s1 == Log(s, Ev("unPinPage", pageNo, dirty, Pinned(s, pageNo), st))
  IN IF st = "OK" THEN [s1 EXCEPT !.pinCnt[pageNo] = @ - 1] ELSE s1

\* A call of a Page method through handle page; natural is what the page answers.
PageCall(s, call, page, natural, f) ==
  Log(s, Ev(call, page, FALSE, Pinned(s, page),
            IF Inj(s, f) THEN "UNIXERR" ELSE natural))

\* A call of the file layer (db.openFile, db.closeFile, ...); it never fails
\* by injection.
FileCall(s, call, st) == Log(s, Ev(call, NULL, FALSE, FALSE, st))

\* Dereferencing NULL or an uninitialised pointer ends the process.
CanDeref(s, p) == IsPage(s, p)
Crash(s) == [s EXCEPT !.ret = "CRASH"]

Ret(s, st) == [s EXCEPT !.ret = st]

\* ------------------------------------------------------- createHeapFile
\* createHeapFile that counts only the data page in pageCnt.
CreateHeapFile_CountsDataPages(s, f) ==
  IF s.fileExists
  THEN Ret([FileCall(s, "openFile", "OK") EXCEPT !.openCnt = @ + 1], "FILEEXISTS")
  ELSE
    LET s1 == FileCall(FileCall(s, "openFile", "UNIXERR"), "createFile", "OK")
        s2 == [FileCall(s1, "openFile", "OK") EXCEPT !.fileExists = TRUE,
                                                      !.openCnt = @ + 1]
        hdrPageNo == NewPageNo(s2)
        s3 == AllocPage(s2, f)
    IN IF s3.st # "OK" THEN Ret(s3, s3.st)
       ELSE
         LET s4 == [s3 EXCEPT !.hdr.pageCnt = 1, !.hdr.recCnt = 0]
             newPageNo == NewPageNo(s4)
             s5 == AllocPage(s4, f)
         IN IF s5.st # "OK" THEN Ret(s5, s5.st)
            ELSE
              LET s6 == [s5 EXCEPT !.pages[newPageNo] = PageInit,
                                   !.hdr.firstPage = newPageNo,
                                   !.hdr.lastPage = newPageNo]
                  s7 == UnPinPage(s6, hdrPageNo, TRUE, f)
              IN IF s7.st # "OK" THEN Ret(s7, s7.st)
                 ELSE LET s8 == UnPinPage(s7, newPageNo, TRUE, f)
                      IN IF s8.st # "OK" THEN Ret(s8, s8.st) ELSE Ret(s8, "OK")

CreateHeapFile(s, f) ==
  IF s.fileExists
  THEN \* db.openFile succeeds: the file already exists
       Ret([FileCall(s, "openFile", "OK") EXCEPT !.openCnt = @ + 1], "FILEEXISTS")
  ELSE
    LET s1 == FileCall(FileCall(s, "openFile", "UNIXERR"), "createFile", "OK")
        s2 == [FileCall(s1, "openFile", "OK") EXCEPT !.fileExists = TRUE,
                                                      !.openCnt = @ + 1]
        hdrPageNo == NewPageNo(s2)
        s3 == AllocPage(s2, f)
    IN IF s3.st # "OK" THEN Ret(s3, s3.st)
       ELSE
         LET s4 == [s3 EXCEPT !.hdr.pageCnt = 2, !.hdr.recCnt = 0]
             newPageNo == NewPageNo(s4)
             s5 == AllocPage(s4, f)
         IN IF s5.st # "OK" THEN Ret(s5, s5.st)
            ELSE
              LET s6 == [s5 EXCEPT !.pages[newPageNo] = PageInit,
                                   !.hdr.firstPage = newPageNo,
                                   !.hdr.lastPage = newPageNo]
                  s7 == UnPinPage(s6, hdrPageNo, TRUE, f)
              IN IF s7.st # "OK" THEN Ret(s7, s7.st)
                 ELSE LET s8 == UnPinPage(s7, newPageNo, TRUE, f)
                      IN IF s8.st # "OK" THEN Ret(s8, s8.st) ELSE Ret(s8, "OK")

\* db.destroyFile(fileName): refused while the file is open.
DbDestroyFile(s) ==
  IF ~s.fileExists THEN FileCall(s, "destroyFile", "UNIXERR")
  ELSE IF s.openCnt > 0 THEN FileCall(s, "destroyFile", "FILEOPEN")
  ELSE [FileCall(s, "destroyFile", "OK") EXCEPT
          !.fileExists = FALSE, !.pages = <<>>, !.pinCnt = <<>>,
          !.hdr = [pageCnt |-> 0, recCnt |-> 0, firstPage |-> 0, lastPage |-> 0]]

DestroyHeapFile(s) == LET s1 == DbDestroyFile(s) IN Ret(s1, s1.st)

\* ------------------------------------------------------------- HeapFile
\* The constructor.  u is what the uninitialised member curPage holds.
HeapFileOpen(s, u, f) ==
  LET s0 == [s EXCEPT !.headerPage = WILD, !.headerPageNo = 0,
                      !.hdrDirtyFlag = FALSE, !.curPage = u, !.curPageNo = 0,
                      !.curDirtyFlag = FALSE, !.curRec = NULLRID,
                      !.markedPageNo = UNSET, !.markedRec = NULLRID]
      s1 == [FileCall(s0, "openFile", "OK") EXCEPT !.openCnt = @ + 1]
      s2 == [FileCall(s1, "getFirstPage", "OK") EXCEPT !.headerPageNo = 1]
      s3 == ReadPage(s2, s2.headerPageNo, f)
  IN IF s3.st # "OK" THEN Ret(s3, s3.st)
     ELSE
       LET s4 == [s3 EXCEPT !.headerPage = s3.headerPageNo, !.hdrDirtyFlag = FALSE]
           firstDataPageNo == s4.hdr.firstPage
           s5 == ReadPage(s4, firstDataPageNo, f)
       IN IF s5.st # "OK" THEN Ret(s5, s5.st)
          ELSE Ret([s5 EXCEPT !.curPage = firstDataPageNo,
                              !.curPageNo = firstDataPageNo,
                              !.curDirtyFlag = FALSE,
                              !.curRec = NULLRID], "OK")

\* A destructor that gives up when the unpin of the header page fails.
HeapFileClose_StopsOnError(s, w, f) ==
  IF ~(CanDeref(s, s.headerPage) \/ (s.headerPage = WILD /\ w)) THEN Crash(s)
  ELSE
    LET s1 == IF s.curPage # NULL
              THEN [UnPinPage(s, s.curPageNo, s.curDirtyFlag, f)
                      EXCEPT !.curPage = NULL, !.curPageNo = 0,
                             !.curDirtyFlag = FALSE]
              ELSE s
        s2 == UnPinPage(s1, s1.headerPageNo, s1.hdrDirtyFlag, f)
        s3 == [FileCall(s2, "closeFile", "OK") EXCEPT !.openCnt = @ - 1]
    IN IF s2.st # "OK" THEN Ret(s2, s2.st) ELSE Ret(s3, "OK")

\* The destructor.  w: a read through an uninitialised pointer survives.
HeapFileClose(s, w, f) ==
  IF ~(CanDeref(s, s.headerPage) \/ (s.headerPage = WILD /\ w)) THEN Crash(s)
  ELSE
    LET s1 == IF s.curPage # NULL
              THEN [UnPinPage(s, s.curPageNo, s.curDirtyFlag, f)
                      EXCEPT !.curPage = NULL, !.curPageNo = 0,
                             !.curDirtyFlag = FALSE]
              ELSE s
        s2 == UnPinPage(s1, s1.headerPageNo, s1.hdrDirtyFlag, f)
        s3 == [FileCall(s2, "closeFile", "OK") EXCEPT !.openCnt = @ - 1]
    IN Ret(s3, "OK")

getRecCnt(s) == s.hdr.recCnt

\* HeapFile::getRecord(rid, rec)
GetRecord(s, rid, f) ==
  LET same == s.curPage # NULL /\ s.curPageNo = rid.pageNo
      s1 == IF same \/ s.curPage = NULL THEN s
            ELSE UnPinPage(s, s.curPageNo, s.curDirtyFlag, f)
  IN IF s1.st # "OK" THEN Ret(s1, s1.st)
     ELSE
       LET s2 == IF same THEN s1 ELSE ReadPage(s1, rid.pageNo, f)
       IN IF s2.st # "OK" THEN Ret(s2, s2.st)
          ELSE
            LET s3 == IF same THEN s2
                      ELSE [s2 EXCEPT !.curPage = rid.pageNo,
                                      !.curPageNo = rid.pageNo,
                                      !.curDirtyFlag = FALSE]
                page == s3.curPage
            IN IF ~CanDeref(s3, page) THEN Crash(s3)
               ELSE
                 LET s4 == PageCall(s3, "getRecord", page,
                                    PageGetRecord(s3.pages[page], rid).st, f)
                 IN IF s4.st # "OK"
                    THEN Ret(IF s4.curPageNo # rid.pageNo
                             THEN [UnPinPage(s4, rid.pageNo, FALSE, f)
                                     EXCEPT !.st = s4.st]
                             ELSE s4, s4.st)
                    ELSE Ret([s4 EXCEPT !.curRec = rid], "OK")

\* --------------------------------------------------------- HeapFileScan
\* filter is <<>> for a NULL pointer and <<v>> for a pointer to the value v.
Types == {"STRING", "INTEGER", "FLOAT"}
Operators == {"LT", "LTE", "EQ", "GTE", "GT", "NE"}
FloatSize == 4

\* startScan that stores its arguments before it validates them.
StartScan_StoresFirst(s, offset_, length_, type_, filter_, op_) ==
  IF filter_ = <<>> THEN Ret([s EXCEPT !.filter = <<>>], "OK")
  ELSE
    LET s1 == [s EXCEPT !.offset = offset_, !.length = length_, !.type = type_,
                        !.filter = filter_, !.op = op_]
    IN IF \/ (offset_ < 0 \/ length_ < 1)
          \/ type_ \notin Types
          \/ (type_ = "INTEGER" /\ length_ # IntSize)
          \/ (type_ = "FLOAT" /\ length_ # FloatSize)
          \/ op_ \notin Operators
       THEN Ret(s1, "BADSCANPARM")
       ELSE Ret(s1, "OK")

StartScan(s, offset_, length_, type_, filter_, op_) ==
  IF filter_ = <<>> THEN Ret([s EXCEPT !.filter = <<>>], "OK")
  ELSE IF \/ (offset_ < 0 \/ length_ < 1)
          \/ type_ \notin Types
          \/ (type_ = "INTEGER" /\ length_ # IntSize)
          \/ (type_ = "FLOAT" /\ length_ # FloatSize)
          \/ op_ \notin Operators
       THEN Ret(s, "BADSCANPARM")
       ELSE Ret([s EXCEPT !.offset = offset_, !.length = length_, !.type = type_,
                          !.filter = filter_, !.op = op_], "OK")

\* endScan that leaves curPage set after the unpin.
EndScan_KeepsPage(s, f) ==
  IF s.curPage # NULL
  THEN LET s1 == UnPinPage(s, s.curPageNo, s.curDirtyFlag, f)
       IN Ret([s1 EXCEPT !.curDirtyFlag = FALSE], s1.st)
  ELSE Ret(s, "OK")

EndScan(s, f) ==
  IF s.curPage # NULL
  THEN LET s1 == UnPinPage(s, s.curPageNo, s.curDirtyFlag, f)
       IN Ret([s1 EXCEPT !.curPage = NULL, !.curPageNo = 0,
                         !.curDirtyFlag = FALSE], s1.st)
  ELSE Ret(s, "OK")

MarkScan(s) ==
  Ret([s EXCEPT !.markedPageNo = s.curPageNo, !.markedRec = s.curRec], "OK")

ResetScan(s, f) ==
  IF s.markedPageNo # s.curPageNo
  THEN
    LET s1 == IF s.curPage # NULL
              THEN UnPinPage(s, s.curPageNo, s.curDirtyFlag, f) ELSE s
    IN IF s1.st # "OK" THEN Ret(s1, s1.st)
       ELSE
         LET s2 == [s1 EXCEPT !.curPageNo = s1.markedPageNo,
                              !.curRec = s1.markedRec]
             s3 == ReadPage(s2, s2.curPageNo, f)
         IN IF s3.st # "OK" THEN Ret(s3, s3.st)
            ELSE Ret([s3 EXCEPT !.curPage = s3.curPageNo,
                                !.curDirtyFlag = FALSE], "OK")
  ELSE Ret([s EXCEPT !.curRec = s.markedRec], "OK")

\* The integer a record holds at offset off (the bytes after attr are zero).
AttrAt(rec, off) == IF off = 0 THEN rec.attr ELSE 0

\* The values of an int, and the int that a result wraps to.
IntMin == 0 - 2 ^ (IntBits - 1)
IntMax == 2 ^ (IntBits - 1) - 1
IntRange == IntMin..IntMax
Wrap(x) == ((x - IntMin) % (2 ^ IntBits)) + IntMin

\* matchRec for an INTEGER predicate.  iattr - ifltr is a subtraction of two
\* ints: when the difference is not an int the behaviour is undefined, and the
\* build either wraps it (wraps) or carries the exact difference into the
\* float.  The conversion of an int to float keeps its sign and keeps a
\* difference other than 0 away from 0.
MatchRecWith(s, rec, wraps) ==
  IF s.filter = <<>> THEN TRUE
  ELSE IF (s.offset + s.length - 1) >= rec.length THEN FALSE
  ELSE
    LET d == AttrAt(rec, s.offset) - s.filter[1]
        diff == IF wraps THEN Wrap(d) ELSE d
    IN CASE s.op = "LT" -> diff < 0
         [] s.op = "LTE" -> diff <= 0
         [] s.op = "EQ" -> diff = 0
         [] s.op = "GTE" -> diff >= 0
         [] s.op = "GT" -> diff > 0
         [] s.op = "NE" -> diff # 0
         [] OTHER -> FALSE

\* matchRec as scanNext calls it: the records of a scanned file hold 0 or 1
\* and the filter is 1, so the difference is an int.
MatchRec(s, rec) == MatchRecWith(s, rec, TRUE)

\* scanNext, lines 328-345: the current page has no further record.
\* ret = "LOOP" when the loop goes on, on the next page.
ScanNextPage(s, f) ==
  LET s1 == UnPinPage(s, s.curPageNo, s.curDirtyFlag, f)
  IN IF s1.st # "OK" THEN Ret(s1, s1.st)
     ELSE
       LET nextPageNo == s1.pages[s1.curPage].next
           \* getNextPage only reads the link: the mock never fails it
           s2 == PageCall(s1, "getNextPage", s1.curPage, "OK", 0)
       IN IF s2.st # "OK" THEN Ret(s2, s2.st)
          ELSE IF nextPageNo = NOPAGE
          THEN Ret([s2 EXCEPT !.curPage = NULL], "NOMORERECS")
          ELSE
            LET s3 == ReadPage(s2, nextPageNo, f)
            IN IF s3.st # "OK" THEN Ret(s3, s3.st)
               ELSE Ret([s3 EXCEPT !.curPage = nextPageNo,
                                   !.curPageNo = nextPageNo,
                                   !.curRec = NULLRID,
                                   !.curDirtyFlag = FALSE], "LOOP")

\* One iteration of the loop of scanNext that leaves curRec where it was when
\* the record does not match.
ScanNextIter_KeepsCursor(s, f) ==
  IF ~CanDeref(s, s.curPage) THEN Crash(s)
  ELSE
    LET pg == s.pages[s.curPage]
        first == s.curRec.pageNo = 0 - 1 /\ s.curRec.slotNo = 0 - 1
        nx == IF first THEN PageFirstRecord(pg, s.curPage)
              ELSE PageNextRecord(pg, s.curRec, s.curPage)
        s1 == PageCall(s, IF first THEN "firstRecord" ELSE "nextRecord",
                       s.curPage, nx.st, f)
    IN IF s1.st = "NORECORDS" \/ s1.st = "ENDOFPAGE" THEN ScanNextPage(s1, f)
       ELSE IF s1.st # "OK" THEN Ret(s1, s1.st)
       ELSE
         LET got == PageGetRecord(pg, nx.rid)
             s2 == PageCall(s1, "getRecord", s1.curPage, got.st, f)
         IN IF s2.st # "OK" THEN Ret(s2, s2.st)
            ELSE IF MatchRec(s2, got.rec)
            THEN Ret([s2 EXCEPT !.curRec = nx.rid, !.outRid = nx.rid], "OK")
            ELSE Ret(s2, "LOOP")

\* scanNext, lines 324-364: one iteration of the loop; ret = "LOOP" when the
\* loop goes on.
ScanNextIter(s, f) ==
  IF ~CanDeref(s, s.curPage) THEN Crash(s)
  ELSE
    LET pg == s.pages[s.curPage]
        first == s.curRec.pageNo = 0 - 1 /\ s.curRec.slotNo = 0 - 1
        nx == IF first THEN PageFirstRecord(pg, s.curPage)
              ELSE PageNextRecord(pg, s.curRec, s.curPage)
        s1 == PageCall(s, IF first THEN "firstRecord" ELSE "nextRecord",
                       s.curPage, nx.st, f)
    IN IF s1.st = "NORECORDS" \/ s1.st = "ENDOFPAGE" THEN ScanNextPage(s1, f)
       ELSE IF s1.st # "OK" THEN Ret(s1, s1.st)
       ELSE
         LET got == PageGetRecord(pg, nx.rid)
             s2 == PageCall(s1, "getRecord", s1.curPage, got.st, f)
         IN IF s2.st # "OK" THEN Ret(s2, s2.st)
            ELSE IF MatchRec(s2, got.rec)
            THEN Ret([s2 EXCEPT !.curRec = nx.rid, !.outRid = nx.rid], "OK")
            ELSE Ret([s2 EXCEPT !.curRec = nx.rid], "LOOP")

\* scanNext: the loop, run until it returns.
RECURSIVE ScanNext(_, _)
ScanNext(s, f) ==
  LET r == ScanNextIter(s, f)
  IN IF r.ret = "LOOP" THEN ScanNext(r, f) ELSE r

\* HeapFileScan::getRecord(rec): the record under the cursor.
ScanGetRecord(s, f) ==
  IF ~CanDeref(s, s.curPage) THEN Crash(s)
  ELSE LET s1 == PageCall(s, "getRecord", s.curPage,
                          PageGetRecord(s.pages[s.curPage], s.curRec).st, f)
       IN Ret(s1, s1.st)

DeleteRecord(s, f) ==
  IF ~CanDeref(s, s.curPage) THEN Crash(s)
  ELSE
    LET del == PageDeleteRecord(s.pages[s.curPage], s.curRec)
        s1 == PageCall(s, "deleteRecord", s.curPage, del.st, f)
        s2 == IF s1.st = "OK" THEN [s1 EXCEPT !.pages[s.curPage] = del.pg] ELSE s1
    IN Ret([s2 EXCEPT !.curDirtyFlag = TRUE,
                      !.hdr.recCnt = @ - 1,
                      !.hdrDirtyFlag = TRUE], s1.st)

MarkDirty(s) == Ret([s EXCEPT !.curDirtyFlag = TRUE], "OK")

\* ------------------------------------------------------- InsertFileScan
\* ~InsertFileScan, before ~HeapFile runs.
InsertClose(s, f) ==
  IF s.curPage # NULL
  THEN [UnPinPage(s, s.curPageNo, TRUE, f) EXCEPT !.curPage = NULL, !.curPageNo = 0]
  ELSE s

\* The length test against the whole page instead of its payload.
TooLarge_WholePage(rec) == rec.length < 0 \/ rec.length > PageCap + IntSize

\* insertRecord, lines 483-488: the record can never fit on a page.  The
\* cast to unsigned makes a negative length larger than any page.
TooLarge(rec) == rec.length < 0 \/ rec.length > PageCap

\* The overflow sequence without the increment of pageCnt.
InsertOverflow_NoCount(s, rec, f) ==
  LET newPageNo == NewPageNo(s)
      s1 == AllocPage(s, f)
      s2 == [s1 EXCEPT !.pages[newPageNo] = PageInit]
      s3 == PageCall(s2, "setNextPage", s2.curPage, "OK", f)
      s4 == [s3 EXCEPT !.pages[s3.curPage].next = newPageNo]
      s5 == UnPinPage(s4, s4.curPageNo, TRUE, f)
      s6 == [s5 EXCEPT !.hdr.lastPage = newPageNo,
                       !.hdrDirtyFlag = TRUE,
                       !.curPage = newPageNo,
                       !.curPageNo = newPageNo,
                       !.curDirtyFlag = FALSE]
      ins == PageInsertRecord(s6.pages[newPageNo], rec, newPageNo)
      s7 == PageCall(s6, "insertRecord", newPageNo, ins.st, f)
  IN IF s1.st # "OK" THEN Ret(s1, s1.st)
     ELSE IF s3.st # "OK" THEN Ret(s3, s3.st)
     ELSE IF s5.st # "OK" THEN Ret(s5, s5.st)
     ELSE IF s7.st # "OK" THEN Ret(s7, s7.st)
     ELSE Ret([s7 EXCEPT !.pages[newPageNo] = ins.pg,
                         !.outRid = ins.rid,
                         !.hdr.recCnt = @ + 1,
                         !.hdrDirtyFlag = TRUE,
                         !.curDirtyFlag = TRUE], "OK")

\* insertRecord, lines 500-533: the current page is full.
InsertOverflow(s, rec, f) ==
  LET newPageNo == NewPageNo(s)
      s1 == AllocPage(s, f)
  IN IF s1.st # "OK" THEN Ret(s1, s1.st)
     ELSE
       LET s2 == [s1 EXCEPT !.pages[newPageNo] = PageInit]
           s3 == PageCall(s2, "setNextPage", s2.curPage, "OK", f)
       IN IF s3.st # "OK" THEN Ret(s3, s3.st)
          ELSE
            LET s4 == [s3 EXCEPT !.pages[s3.curPage].next = newPageNo]
                s5 == UnPinPage(s4, s4.curPageNo, TRUE, f)
            IN IF s5.st # "OK" THEN Ret(s5, s5.st)
               ELSE
                 LET s6 == [s5 EXCEPT !.hdr.lastPage = newPageNo,
                                      !.hdr.pageCnt = @ + 1,
                                      !.hdrDirtyFlag = TRUE,
                                      !.curPage = newPageNo,
                                      !.curPageNo = newPageNo,
                                      !.curDirtyFlag = FALSE]
                     ins == PageInsertRecord(s6.pages[newPageNo], rec, newPageNo)
                     s7 == PageCall(s6, "insertRecord", newPageNo, ins.st, f)
                 IN IF s7.st # "OK" THEN Ret(s7, s7.st)
                    ELSE Ret([s7 EXCEPT !.pages[newPageNo] = ins.pg,
                                        !.outRid = ins.rid,
                                        !.hdr.recCnt = @ + 1,
                                        !.hdrDirtyFlag = TRUE,
                                        !.curDirtyFlag = TRUE], "OK")

\* insertRecord that hands the page's answer to its caller.
InsertRecord_NoRetry(s, rec, f) ==
  IF TooLarge(rec) THEN Ret(s, "INVALIDRECLEN")
  ELSE IF ~CanDeref(s, s.curPage) THEN Crash(s)
  ELSE
    LET ins == PageInsertRecord(s.pages[s.curPage], rec, s.curPage)
        s1 == PageCall(s, "insertRecord", s.curPage, ins.st, f)
    IN IF s1.st = "OK"
       THEN Ret([s1 EXCEPT !.pages[s.curPage] = ins.pg,
                           !.outRid = ins.rid,
                           !.hdr.recCnt = @ + 1,
                           !.hdrDirtyFlag = TRUE,
                           !.curDirtyFlag = TRUE], "OK")
       ELSE Ret(s1, s1.st)

InsertRecord(s, rec, f) ==
  IF TooLarge(rec) THEN Ret(s, "INVALIDRECLEN")
  ELSE IF ~CanDeref(s, s.curPage) THEN Crash(s)
  ELSE
    LET ins == PageInsertRecord(s.pages[s.curPage], rec, s.curPage)
        s1 == PageCall(s, "insertRecord", s.curPage, ins.st, f)
    IN IF s1.st = "OK"
       THEN Ret([s1 EXCEPT !.pages[s.curPage] = ins.pg,
                           !.outRid = ins.rid,
                           !.hdr.recCnt = @ + 1,
                           !.hdrDirtyFlag = TRUE,
                           !.curDirtyFlag = TRUE], "OK")
       ELSE IF s1.st = "NOSPACE" THEN InsertOverflow(s1, rec, f)
       ELSE Ret(s1, s1.st)

\* ------------------------------------------------------ the test harness
\* What a test observes of a run; none of it is read by the handlers.
HistInit ==
  [nCreates |-> 0, nOpens |-> 0, openOK |-> FALSE,
   nIns |-> 0, nDel |-> 0, nDelCalls |-> 0,
   inserted |-> <<>>,    \* [rid, length] of each insertRecord that returned a RID
   popOnly |-> TRUE,     \* only open, insertRecord, plain next() and close so far
   arg |-> <<>>,         \* argument of the last operation
   pinBal |-> 0,         \* pins minus unpins that succeeded since the open
   overUnpin |-> FALSE,  \* an unPinPage of a page that was not pinned
   failed |-> FALSE,     \* a collaborator call failed since the open
   nFaults |-> 0, faultOps |-> {},
   pure |-> FALSE,       \* only next() since the open, no filter
   scanOut |-> <<>>,     \* RIDs next() returned since the open
   mk |-> "none",        \* "marked": markScan then next()s; "reset": then resetScan
   expect |-> <<>>,      \* what next() would have returned right after markScan
   mut |-> {},           \* pinned pages written in memory since they were pinned
   nScans |-> 0]         \* startScan calls with arbitrary arguments since the open

PinCalls == {"readPage", "allocPage"}
PageCalls == {"firstRecord", "nextRecord", "getRecord", "deleteRecord",
              "insertRecord", "getNextPage", "setNextPage"}

\* The calls of tr, among calls, that succeeded.
CountOK(tr, calls) ==
  Cardinality({ i \in 1..Len(tr) : tr[i].call \in calls /\ tr[i].st = "OK" })
Injected(tr) == \E i \in 1..Len(tr) : tr[i].st = "UNIXERR" /\ tr[i].call # "openFile"
OverUnpin(tr) ==
  \E i \in 1..Len(tr) : tr[i].call = "unPinPage" /\ ~tr[i].pinned
\* A call failed, other than an unPinPage of a page that was not pinned.
Failed(tr) ==
  \E i \in 1..Len(tr) :
     /\ tr[i].st \notin Signals
     /\ ~(tr[i].call = "unPinPage" /\ tr[i].st = "PAGENOTPINNED")
     /\ ~(tr[i].call = "openFile")

\* Calls after which the page they were made on differs in memory.
WriteCalls == {"insertRecord", "deleteRecord", "setNextPage"}

\* The calls of tr, made with the pages m written since their pin: the pages
\* written and still pinned after tr, and whether tr unpinned one as clean.
\* allocPage is followed by init (heapfile.C, lines 58 and 507).
RECURSIVE DirtyReplay(_, _, _)
DirtyReplay(tr, m, lie) ==
  IF tr = <<>> THEN [mut |-> m, lie |-> lie]
  ELSE
    LET e == Head(tr)
    IN IF e.call = "unPinPage"
       THEN DirtyReplay(Tail(tr), IF e.st = "OK" THEN m \ {e.page} ELSE m,
                        lie \/ (e.page \in m /\ e.pinned /\ ~e.dirty))
       ELSE IF e.st = "OK" /\ e.call \in WriteCalls \cup {"allocPage"}
       THEN DirtyReplay(Tail(tr), m \cup {e.page}, lie)
       ELSE DirtyReplay(Tail(tr), m, lie)

\* The harness after operation name, which left the program in r.
Seen(name, r) ==
  [hist EXCEPT
     !.pinBal = @ + CountOK(r.trace, PinCalls) - CountOK(r.trace, {"unPinPage"}),
     !.overUnpin = @ \/ OverUnpin(r.trace),
     !.failed = @ \/ Failed(r.trace),
     !.nFaults = @ + (IF Injected(r.trace) THEN 1 ELSE 0),
     !.faultOps = @ \cup (IF Injected(r.trace) THEN {name} ELSE {}),
     !.arg = <<>>,
     !.pure = FALSE, !.scanOut = <<>>, !.mk = "none", !.expect = <<>>,
     !.mut = DirtyReplay(r.trace, @, FALSE).mut
             \cup (IF r.hdr # hdr /\ Pinned(r, r.headerPageNo)
                   THEN {r.headerPageNo} ELSE {})]

InstanceKinds == {"HeapFile", "HeapFileScan", "InsertFileScan"}

\* The positions the mock may fail at, given the positions F a run allows.
Faults(F) == IF hist.nFaults < MaxFaults THEN F ELSE {0}

Done(name, r, k, h) ==
  /\ Set(r)
  /\ kind' = (IF r.ret = "CRASH" THEN "crashed" ELSE k)
  /\ lastOp' = name
  /\ hist' = h

\* ---------------------------------------------------------------- actions
Init ==
  /\ fileExists = FALSE /\ openCnt = 0
  /\ hdr = [pageCnt |-> 0, recCnt |-> 0, firstPage |-> 0, lastPage |-> 0]
  /\ pages = <<>> /\ pinCnt = <<>>
  /\ kind = "none"
  /\ headerPage = NULL /\ headerPageNo = 0 /\ hdrDirtyFlag = FALSE
  /\ curPage = NULL /\ curPageNo = 0 /\ curDirtyFlag = FALSE /\ curRec = NULLRID
  /\ markedPageNo = UNSET /\ markedRec = NULLRID
  /\ filter = <<>> /\ offset = 0 /\ length = 0 /\ type = "STRING" /\ op = "EQ"
  /\ trace = <<>> /\ ret = "OK" /\ outRid = NULLRID
  /\ lastOp = "init"
  /\ hist = HistInit

\* A test creates the file before it opens it.
Create(F) ==
  /\ kind = "none"
  /\ hist.nOpens = 0
  /\ hist.nCreates < MaxCreates
  /\ \E f \in Faults(F) :
       LET r == CreateHeapFile(Cur, f)
       IN Done("create", r, "none", [Seen("create", r) EXCEPT !.nCreates = @ + 1])

\* createHeapFile on the name of a file that exists.
Recreate ==
  /\ kind = "none"
  /\ fileExists
  /\ hist.nCreates < MaxCreates + MaxRecreates
  /\ LET r == CreateHeapFile(Cur, 0)
     IN Done("create", r, "none", [Seen("create", r) EXCEPT !.nCreates = @ + 1])

DestroyFile ==
  /\ kind = "none"
  /\ fileExists
  /\ LET r == DestroyHeapFile(Cur)
     IN Done("destroy", r, "none", Seen("destroy", r))

Open(F, K, n) ==
  /\ kind = "none"
  /\ fileExists /\ Len(pages) >= 1
  /\ hist.nOpens < n
  /\ \E k \in K, f \in Faults(F), u \in {NULL, WILD} :
       LET r == [HeapFileOpen(Cur, u, f) EXCEPT !.filter = <<>>]
       IN /\ (r.ret = "OK" => u = NULL)
          /\ Done("open", r, k,
                  [Seen("open", r) EXCEPT
                     !.nOpens = @ + 1, !.openOK = (r.ret = "OK"),
                     !.pinBal = CountOK(r.trace, PinCalls),
                     !.overUnpin = FALSE, !.failed = Failed(r.trace),
                     !.mut = {}, !.nScans = 0,
                     !.pure = (k = "HeapFileScan" /\ r.ret = "OK")])

\* The destructor chain of the instance's class.
Destroy(s, k, w, f) ==
  IF k = "HeapFileScan" THEN HeapFileClose(EndScan(s, f), w, f)
  ELSE IF k = "InsertFileScan" THEN HeapFileClose(InsertClose(s, f), w, f)
  ELSE HeapFileClose(s, w, f)

Close(F) ==
  /\ kind \in InstanceKinds
  /\ \E f \in Faults(F), w \in BOOLEAN :
       LET r == Destroy(Cur, kind, w, f)
       IN /\ (headerPage # WILD => w)
          /\ Done("close", r, "none", Seen("close", r))

Live(k) == kind \in k /\ hist.openOK

DataRids == { [pageNo |-> p, slotNo |-> n] : p \in 2..Len(pages), n \in 0..1 }

\* HeapFileScan::getRecord(rec) hides HeapFile::getRecord(rid, rec) in a scan.
GetRec(F) ==
  /\ Live({"HeapFile", "InsertFileScan"})
  /\ \E rid \in DataRids, f \in Faults(F) :
       LET r == GetRecord(Cur, rid, f)
       IN Done("getRecord", r, kind,
               [Seen("getRecord", r) EXCEPT !.popOnly = FALSE, !.arg = rid])

\* The predicate is set before the first next().
StartScanOp ==
  /\ Live({"HeapFileScan"})
  /\ lastOp \in {"open", "startScan"}
  /\ \E fl \in {<<>>, <<1>>}, o \in {"EQ", "LT"} :
       LET r == StartScan(Cur, 0, IntSize, "INTEGER", fl, o)
       IN Done("startScan", r, kind, [Seen("startScan", r) EXCEPT !.popOnly = FALSE])

\* Arguments a caller can pass to startScan, valid or not.  A Datatype or an
\* Operator is an enum, which can hold a value that is none of its names.
ScanOffsets == {0 - 1, 0}
ScanLengths == {0, 1, IntSize}
ScanTypes == Types \cup {"OTHERTYPE"}
ScanOperators == Operators \cup {"OTHEROP"}

\* startScan with arbitrary arguments.
StartScanAny ==
  /\ Live({"HeapFileScan"})
  /\ hist.nScans < MaxScans
  /\ \E o \in ScanOffsets, l \in ScanLengths, ty \in ScanTypes,
        fl \in {<<>>, <<1>>}, p \in ScanOperators :
       LET r == StartScan(Cur, o, l, ty, fl, p)
       IN Done("startScan", r, kind,
               [Seen("startScan", r) EXCEPT
                  !.popOnly = FALSE, !.nScans = hist.nScans + 1,
                  !.arg = [offset |-> o, length |-> l, type |-> ty,
                           filter |-> fl, op |-> p]])

\* startScan with an INTEGER predicate on the int at offset 0.
SetIntFilter ==
  /\ Live({"HeapFileScan"})
  /\ lastOp = "open"
  /\ \E v \in IntRange, o \in Operators :
       LET r == StartScan(Cur, 0, IntSize, "INTEGER", <<v>>, o)
       IN Done("startScan", r, kind,
               [Seen("startScan", r) EXCEPT !.popOnly = FALSE])

\* matchRec applied to a record that holds any int at offset 0, or that is
\* one byte too short to hold one.
MatchOp ==
  /\ Live({"HeapFileScan"})
  /\ filter # <<>> /\ type = "INTEGER" /\ offset = 0
  /\ \E a \in IntRange, len \in {IntSize - 1, IntSize}, wraps \in BOOLEAN :
       LET rec == [length |-> len, attr |-> a]
           r == Ret(Cur, IF MatchRecWith(Cur, rec, wraps) THEN "MATCH" ELSE "NOMATCH")
       IN Done("matchRec", r, kind,
               [Seen("matchRec", r) EXCEPT !.popOnly = FALSE, !.arg = rec])

Next_(F) ==
  /\ Live({"HeapFileScan"})
  /\ \E f \in Faults(F) :
       LET r == ScanNext(Cur, f)
           h == Seen("next", r)
       IN Done("next", r, kind,
               [h EXCEPT !.pure = hist.pure,
                         !.scanOut = IF hist.pure /\ r.ret = "OK"
                                     THEN Append(hist.scanOut, r.outRid)
                                     ELSE hist.scanOut,
                         !.mk = IF hist.mk = "marked" THEN "marked" ELSE "none",
                         !.expect = IF hist.mk = "marked" THEN hist.expect ELSE <<>>])

\* scanNext is inside its loop: the last iteration did not return.
InLoop == lastOp = "next" /\ ret = "LOOP"

\* A call of scanNext, up to the end of the first iteration of its loop.
NextCall ==
  /\ Live({"HeapFileScan"})
  /\ ~InLoop
  /\ \E r \in {ScanNextIter(Cur, 0)} :
       Done("next", r, kind, [Seen("next", r) EXCEPT !.popOnly = FALSE])

\* The next iteration of the loop of a scanNext that has not returned.
NextIter ==
  /\ Live({"HeapFileScan"})
  /\ InLoop
  /\ \E r \in {ScanNextIter(Cur, 0)} :
       Done("next", r, kind, [Seen("next", r) EXCEPT !.popOnly = FALSE])

ScanGetRec(F) ==
  /\ Live({"HeapFileScan"})
  /\ \E f \in Faults(F) :
       LET r == ScanGetRecord(Cur, f)
       IN Done("getCurrentRecord", r, kind,
               [Seen("getCurrentRecord", r) EXCEPT !.popOnly = FALSE])

Mark ==
  /\ Live({"HeapFileScan"})
  /\ LET r == MarkScan(Cur)
         n == ScanNext(r, 0)
     IN Done("markScan", r, kind,
             [Seen("markScan", r) EXCEPT !.popOnly = FALSE, !.mk = "marked",
                                         !.expect = <<n.ret, n.outRid>>])

Reset(F) ==
  /\ Live({"HeapFileScan"})
  /\ markedPageNo # UNSET
  /\ \E f \in Faults(F) :
       LET r == ResetScan(Cur, f)
           ok == hist.mk = "marked" /\ r.ret = "OK"
       IN Done("resetScan", r, kind,
               [Seen("resetScan", r) EXCEPT
                  !.popOnly = FALSE,
                  !.mk = IF ok THEN "reset" ELSE "none",
                  !.expect = IF ok THEN hist.expect ELSE <<>>])

\* deleteRecord is called on a scan that has a current record.
Delete(F) ==
  /\ Live({"HeapFileScan"})
  /\ curRec # NULLRID
  /\ hist.nDelCalls < MaxDeletes
  /\ \E f \in Faults(F) :
       LET r == DeleteRecord(Cur, f)
       IN Done("deleteRecord", r, kind,
               [Seen("deleteRecord", r) EXCEPT
                  !.popOnly = FALSE, !.nDelCalls = @ + 1,
                  !.nDel = @ + (IF r.ret = "OK" THEN 1 ELSE 0)])

EndScanOp(F) ==
  /\ Live({"HeapFileScan"})
  /\ \E f \in Faults(F) :
       LET r == EndScan(Cur, f)
       IN Done("endScan", r, kind, [Seen("endScan", r) EXCEPT !.popOnly = FALSE])

Insert(F, n) ==
  /\ Live({"InsertFileScan"})
  /\ hist.nIns < n
  /\ \E rec \in Records \cup {BigRecord}, f \in Faults(F) :
       LET r == InsertRecord(Cur, rec, f)
       IN Done("insertRecord", r, kind,
               [Seen("insertRecord", r) EXCEPT
                  !.arg = rec,
                  !.nIns = @ + (IF r.ret = "OK" THEN 1 ELSE 0),
                  !.inserted = IF r.ret = "OK"
                               THEN Append(@, [rid |-> r.outRid, length |-> rec.length])
                               ELSE @])

NoFault == {0}
AnyFault == 0..MaxFaultPos

\* Every collaborator call succeeds unless the state of the file makes it fail.
Next ==
  \/ Create(NoFault) \/ Open(NoFault, InstanceKinds, MaxOpens) \/ Close(NoFault) \/ GetRec(NoFault)
  \/ StartScanOp \/ Next_(NoFault) \/ ScanGetRec(NoFault) \/ Mark
  \/ Reset(NoFault) \/ Delete(NoFault) \/ EndScanOp(NoFault) \/ Insert(NoFault, MaxInserts)

Spec == Init /\ [][Next]_vars

\* The mock makes up to MaxFaults calls fail.
NextErr ==
  \/ Create(AnyFault) \/ Open(AnyFault, InstanceKinds, MaxOpens) \/ Close(AnyFault) \/ GetRec(AnyFault)
  \/ StartScanOp \/ Next_(AnyFault) \/ ScanGetRec(AnyFault) \/ Mark
  \/ Reset(AnyFault) \/ Delete(AnyFault) \/ EndScanOp(AnyFault) \/ Insert(AnyFault, MaxInserts)

SpecErr == Init /\ [][NextErr]_vars

\* Files grown by several InsertFileScan instances, read back by plain scans.
NextGrow ==
  \/ Create(NoFault) \/ Open(NoFault, {"InsertFileScan", "HeapFileScan"}, MaxSessions)
  \/ Close(NoFault) \/ Next_(NoFault) \/ Insert(NoFault, MaxGrow)

SpecGrow == Init /\ [][NextGrow]_vars

\* Files grown by instances that also read records back by RID.
NextChain ==
  \/ Create(NoFault) \/ Open(NoFault, {"InsertFileScan", "HeapFile"}, MaxSessions)
  \/ Close(NoFault) \/ GetRec(NoFault) \/ Insert(NoFault, MaxGrow)

SpecChain == Init /\ [][NextChain]_vars

\* Instances that are used without failure and whose close meets failures.
NextTeardown ==
  \/ Create(NoFault) \/ Open(NoFault, InstanceKinds, MaxOpens) \/ Close(AnyFault)
  \/ Insert(NoFault, MaxInserts) \/ Next_(NoFault) \/ Delete(NoFault)
  \/ EndScanOp(NoFault)

SpecTeardown == Init /\ [][NextTeardown]_vars

\* Files created, created again, filled and destroyed.
NextCreate ==
  \/ Create(NoFault) \/ Recreate \/ DestroyFile
  \/ Open(NoFault, {"InsertFileScan"}, MaxOpens) \/ Insert(NoFault, MaxInserts)
  \/ Close(NoFault)

SpecCreate == Init /\ [][NextCreate]_vars

\* A scan whose predicate is set with arbitrary arguments.
NextStart ==
  \/ Create(NoFault) \/ Open(NoFault, {"HeapFileScan"}, MaxOpens)
  \/ StartScanAny

SpecStart == Init /\ [][NextStart]_vars

\* matchRec applied to every pair of an attribute and a filter.
NextMatch ==
  \/ Create(NoFault) \/ Open(NoFault, {"HeapFileScan"}, MaxOpens)
  \/ SetIntFilter \/ MatchOp

SpecMatch == Init /\ [][NextMatch]_vars

\* scanNext taken one iteration of its loop at a time; no other operation
\* starts before it has returned, and an iteration that can run does run.
NextLoop ==
  \/ ~InLoop /\ Create(NoFault)
  \/ ~InLoop /\ Open(NoFault, {"InsertFileScan", "HeapFileScan"}, MaxOpens)
  \/ ~InLoop /\ Insert(NoFault, MaxInserts)
  \/ ~InLoop /\ StartScanOp
  \/ ~InLoop /\ Close(NoFault)
  \/ NextCall
  \/ NextIter

SpecLoop == Init /\ [][NextLoop]_vars /\ WF_vars(NextIter)

\* ------------------------------------------------------------ the chain
\* The data pages met by following getNextPage from page p, at most n of them.
RECURSIVE Walk(_, _)
Walk(p, n) ==
  IF n = 0 \/ p \notin 1..Len(pages) THEN <<>>
  ELSE <<p>> \o Walk(pages[p].next, n - 1)

Chain == Walk(hdr.firstPage, Len(pages) + 1)

Created == hist.nCreates > 0 /\ Len(pages) >= 2
Closed == kind = "none" /\ lastOp = "close"
AllUnpinned == \A p \in 1..Len(pinCnt) : pinCnt[p] = 0

\* ---------------------------------------------------------------- claims
\* C1: from a successful open to the close, when no collaborator call
\* fails, no page is unpinned that is not pinned, and at the close the pin
\* calls equal the unPinPage calls: no page is left pinned.
C1_PinBalance ==
  /\ (hist.openOK /\ ~hist.failed) => ~hist.overUnpin
  /\ (Closed /\ hist.openOK /\ ~hist.failed) => (hist.pinBal = 0 /\ AllUnpinned)

\* A scan that deleted a record over a file of two data pages has been closed.
C1_Witness ==
  /\ Closed /\ hist.openOK /\ ~hist.failed
  /\ hist.nOpens = 2 /\ hist.nDel = 1 /\ Len(pages) = 3
  /\ Len(trace) = 2 /\ hist.pinBal = 0

\* C2: a collaborator call fails inside getRecord, next, resetToMark or
\* insertRecord of an instance whose open succeeded; once the instance is
\* closed no page is still pinned and no page was unpinned while not pinned.
C2Ops == {"getRecord", "next", "resetScan", "insertRecord"}

C2_ErrorPathBalance ==
  (Closed /\ hist.openOK /\ hist.faultOps # {} /\ hist.faultOps \subseteq C2Ops)
    => (AllUnpinned /\ ~hist.overUnpin)

\* C3: recordCount() is the number of insertRecord calls that returned a RID
\* minus the number of deleteRecord calls that returned OK.
C3_RecordCount ==
  Created => getRecCnt(Cur) = hist.nIns - hist.nDel

\* Position of page p in the chain (0 when it is not in it).
ChainPos(p) ==
  IF \E i \in 1..Len(Chain) : Chain[i] = p
  THEN CHOOSE i \in 1..Len(Chain) : Chain[i] = p
  ELSE 0

RidBefore(a, b) ==
  \/ ChainPos(a.pageNo) < ChainPos(b.pageNo)
  \/ (a.pageNo = b.pageNo /\ a.slotNo < b.slotNo)

InsertedRids == { hist.inserted[i].rid : i \in 1..Len(hist.inserted) }

\* A plain scan, from its open, has just returned the end of the scan over a
\* file that only insertRecord has written.
FullScanDone ==
  /\ kind = "HeapFileScan" /\ lastOp = "next" /\ ret = "NOMORERECS"
  /\ hist.pure /\ hist.popOnly

\* C4: such a scan has returned the RIDs of all inserted records, each once,
\* in page-chain order and then slot order.
C4_ScanComplete ==
  FullScanDone =>
    /\ { hist.scanOut[i] : i \in 1..Len(hist.scanOut) } = InsertedRids
    /\ Len(hist.scanOut) = Cardinality(InsertedRids)
    /\ \A i \in 1..(Len(hist.scanOut) - 1) :
          RidBefore(hist.scanOut[i], hist.scanOut[i + 1])

\* C5: header.pageCnt - 1 is the number of data pages on the chain.
C5_PageCount ==
  (Created /\ ~hist.failed) => hdr.pageCnt - 1 = Len(Chain)

\* C6: the chain has no cycle, ends at the sentinel, and header.lastPage is
\* its final page.
C6_ChainIntegrity ==
  (Created /\ ~hist.failed) =>
    /\ Len(Chain) >= 1
    /\ \A i, j \in 1..Len(Chain) : i # j => Chain[i] # Chain[j]
    /\ pages[Chain[Len(Chain)]].next = NOPAGE
    /\ hdr.lastPage = Chain[Len(Chain)]

\* C7: after markScan, some next() calls and resetScan, the following next()
\* returns what next() would have returned right after the markScan.
C7_MarkReset ==
  hist.mk = "reset" =>
    LET n == ScanNext(Cur, 0) IN <<n.ret, n.outRid>> = hist.expect

\* The last step was an insertRecord whose attempt on the current page
\* answered NOSPACE.
Overflowed ==
  /\ lastOp' = "insertRecord"
  /\ trace' # <<>> /\ trace'[1].call = "insertRecord" /\ trace'[1].st = "NOSPACE"

\* Three records of one length, two of which fill a page, are all that was
\* inserted, by the first instance opened on the file.
ThreeEqual ==
  /\ hist.nOpens = 1 /\ Len(hist.inserted) = 3
  /\ \A i \in 1..3 : hist.inserted[i].length = hist.inserted[1].length
  /\ 2 * hist.inserted[1].length <= PageCap
  /\ 3 * hist.inserted[1].length > PageCap

\* C8: an insertRecord that meets NOSPACE makes one allocPage call, raises
\* pageCnt by one, links the old current page to the new page, makes it
\* header.lastPage and returns a RID on it; three equal records, two to a
\* page, leave pageCnt = 3, recCnt = 3 and the third alone on the second
\* data page.
C8_OverflowGrowth ==
  [][ /\ Overflowed =>
           /\ CountOK(trace', {"allocPage"}) = 1
           /\ Cardinality({ i \in 1..Len(trace') : trace'[i].call = "allocPage" }) = 1
           /\ hdr'.pageCnt = hdr.pageCnt + 1
           /\ Len(pages') = Len(pages) + 1
           /\ pages'[curPage].next = Len(pages')
           /\ hdr'.lastPage = Len(pages')
           /\ ret' = "OK" /\ outRid'.pageNo = Len(pages')
      /\ ThreeEqual' =>
           /\ hdr'.pageCnt = 3 /\ hdr'.recCnt = 3
           /\ Chain' = <<2, 3>>
           /\ Cardinality(LiveSlots(pages'[2])) = 2
           /\ Cardinality(LiveSlots(pages'[3])) = 1
           /\ hist'.inserted[3].rid.pageNo = 3
    ]_vars

C8_Witness ==
  /\ ThreeEqual /\ lastOp = "insertRecord" /\ ret = "OK"
  /\ trace # <<>> /\ trace[1].st = "NOSPACE" /\ hdr.pageCnt = 3

\* C9: insertRecord of a record longer than the page payload returns
\* INVALIDRECLEN, calls no collaborator and leaves the header, the pages,
\* the pins, the current page and both dirty flags as they were.
C9_Oversized ==
  [][ (lastOp' = "insertRecord" /\ hist'.arg.length > PageCap) =>
         /\ ret' = "INVALIDRECLEN"
         /\ trace' = <<>>
         /\ hdr' = hdr /\ pages' = pages /\ pinCnt' = pinCnt
         /\ curPage' = curPage /\ curPageNo' = curPageNo
         /\ curDirtyFlag' = curDirtyFlag /\ hdrDirtyFlag' = hdrDirtyFlag
    ]_vars

C9_Witness ==
  /\ lastOp = "insertRecord" /\ ret = "INVALIDRECLEN"
  /\ hist.arg.length > PageCap /\ hist.nIns >= 1 /\ curDirtyFlag

\* C10: every call of a Page method is made through the handle of a page
\* that is pinned when the call is made.
C10_NoStaleAccess ==
  \A i \in 1..Len(trace) : trace[i].call \in PageCalls => trace[i].pinned

\* Pin count of page p after the first i calls of tr, from the pin counts pc.
NetPins(pc, tr, i, p) ==
  (IF p \in 1..Len(pc) THEN pc[p] ELSE 0)
  + Cardinality({ j \in 1..i : tr[j].page = p /\ tr[j].call \in PinCalls
                               /\ tr[j].st = "OK" })
  - Cardinality({ j \in 1..i : tr[j].page = p /\ tr[j].call = "unPinPage"
                               /\ tr[j].st = "OK" })

\* The data pages pinned after the first i calls of tr.
DataPinned(pc, tr, i) ==
  { p \in 2..(Len(pc) + Len(tr)) : NetPins(pc, tr, i, p) > 0 }

\* C11: an instance whose open succeeded has at most one data page pinned
\* after each of the buffer-pool calls of each of its operations, and its
\* header page is pinned after each call of every operation but the close.
C11_OneDataPagePinned ==
  [][ (kind \in InstanceKinds /\ hist.openOK) =>
        \A i \in 0..Len(trace') :
           /\ Cardinality(DataPinned(pinCnt, trace', i)) <= 1
           /\ lastOp' # "close" => NetPins(pinCnt, trace', i, headerPageNo) > 0
    ]_vars

\* Call j of the last operation is the record read of a getRecord(rid) that
\* has just pinned rid.pageNo, and the read failed.
ReadFailedAfterSwitch(j) ==
  /\ lastOp' = "getRecord"
  /\ j > 1 /\ j <= Len(trace')
  /\ trace'[j].call = "getRecord" /\ trace'[j].st # "OK"
  /\ trace'[j - 1].call = "readPage" /\ trace'[j - 1].st = "OK"
  /\ trace'[j - 1].page = hist'.arg.pageNo

\* C12: when getRecord(rid) has switched the current page to rid.pageNo and
\* the record read then fails, the next call is the unPinPage of rid.pageNo,
\* getRecord returns the status of the read, and curRec is unchanged.
C12_GetRecordCleanup ==
  [][ \A j \in 1..Len(trace') :
        ReadFailedAfterSwitch(j) =>
          /\ Len(trace') = j + 1
          /\ trace'[j + 1].call = "unPinPage"
          /\ trace'[j + 1].page = hist'.arg.pageNo
          /\ ret' = trace'[j].st
          /\ curRec' = curRec
    ]_vars

\* C13: no unPinPage call is made with dirty = FALSE for a pinned page that
\* was written in memory since it was pinned (record inserted or deleted,
\* next-page link set, page initialised, header fields updated).
C13_DirtyFlagsTruthful ==
  [][ ~DirtyReplay(trace', hist.mut, FALSE).lie ]_vars

\* C14: the close of an opened instance calls, in this order, unPinPage on
\* the current data page when curPage is set (with curDirtyFlag, or with TRUE
\* for an InsertFileScan), unPinPage on the header page with hdrDirtyFlag,
\* and closeFile; the last two are made once each, whatever the unpins
\* return.  curPage is set exactly when the instance holds, besides the pin
\* of its header page, the pin of a data page.
C14_CloseOrdering ==
  [][ (lastOp' = "close" /\ kind \in InstanceKinds /\ hist.openOK) =>
        LET n == Len(trace')
            d == curPage # NULL
        IN /\ n = (IF d THEN 3 ELSE 2)
           /\ d => /\ trace'[1].call = "unPinPage"
                   /\ trace'[1].page = curPageNo
                   /\ trace'[1].dirty = (kind = "InsertFileScan" \/ curDirtyFlag)
           /\ trace'[n - 1].call = "unPinPage"
           /\ trace'[n - 1].page = headerPageNo
           /\ trace'[n - 1].dirty = hdrDirtyFlag
           /\ trace'[n].call = "closeFile"
           /\ openCnt' = openCnt - 1
           /\ d <=> hist.pinBal = 2
    ]_vars

\* A close whose unpin of the data page failed has gone on to the header
\* page and the file.
C14_Witness ==
  /\ lastOp = "close" /\ hist.openOK /\ Len(trace) = 3
  /\ trace[1].call = "unPinPage" /\ trace[1].st = "UNIXERR"
  /\ trace[2].call = "unPinPage" /\ trace[2].page = 1 /\ trace[2].dirty
  /\ trace[3].call = "closeFile"

InternalSignals == {"NOSPACE", "NORECORDS", "ENDOFPAGE"}

\* C15: no operation returns NOSPACE, NORECORDS or ENDOFPAGE.  A page that
\* answers NORECORDS or ENDOFPAGE does so to next(), which leaves the page
\* (unPinPage) and returns a RID or NOMORERECS; a page that answers NOSPACE
\* does so to insertRecord, which allocates a page and ends with a second
\* insertRecord call, on the new page, that succeeds.
C15_SignalsConsumed ==
  [][ /\ ret' \notin InternalSignals
      /\ \A i \in 1..Len(trace') :
           /\ trace'[i].st \in {"NORECORDS", "ENDOFPAGE"} =>
                /\ lastOp' = "next"
                /\ trace'[i].call \in {"firstRecord", "nextRecord"}
                /\ i < Len(trace') /\ trace'[i + 1].call = "unPinPage"
                /\ ret' \in {"OK", "NOMORERECS"}
           /\ trace'[i].st = "NOSPACE" =>
                /\ lastOp' = "insertRecord" /\ i = 1
                /\ trace'[2].call = "allocPage"
                /\ trace'[Len(trace')].call = "insertRecord"
                /\ trace'[Len(trace')].page = trace'[2].page
                /\ trace'[Len(trace')].st = "OK"
                /\ ret' = "OK"
    ]_vars

\* next() has met the end of a page, moved to the next page of the chain and
\* returned the first record there.
C15_Witness ==
  /\ lastOp = "next" /\ ret = "OK" /\ Len(trace) = 6
  /\ trace[1].st = "ENDOFPAGE" /\ trace[4].call = "readPage"
  /\ outRid.pageNo = trace[4].page /\ outRid.pageNo # trace[1].page

\* C16: with every collaborator call succeeding, createHeapFile of a name
\* that does not exist allocates two pages, leaves a header with pageCnt = 2,
\* recCnt = 0 and firstPage = lastPage = the second page, which is empty, and
\* unpins both pages as dirty; createHeapFile of a name that exists returns
\* FILEEXISTS and allocates, pins and writes nothing.
C16_FileCreation ==
  [][ lastOp' = "create" =>
        IF ~fileExists
        THEN LET h == Len(pages) + 1
                 d == Len(pages) + 2
             IN /\ ret' = "OK" /\ fileExists'
                /\ Len(pages') = d
                /\ hdr' = [pageCnt |-> 2, recCnt |-> 0, firstPage |-> d, lastPage |-> d]
                /\ pages'[d] = PageInit
                /\ pinCnt'[h] = 0 /\ pinCnt'[d] = 0
                /\ \A p \in {h, d} :
                     \E i \in 1..Len(trace') :
                        /\ trace'[i] = Ev("unPinPage", p, TRUE, TRUE, "OK")
                        /\ \E j \in 1..(i - 1) :
                              trace'[j] = Ev("allocPage", p, FALSE, FALSE, "OK")
                /\ CountOK(trace', PinCalls) = 2
        ELSE /\ ret' = "FILEEXISTS"
             /\ hdr' = hdr /\ pages' = pages /\ pinCnt' = pinCnt
             /\ \A i \in 1..Len(trace') :
                  trace'[i].call \notin PinCalls \cup PageCalls \cup {"unPinPage"}
    ]_vars

\* createHeapFile has been called on the name of a file that holds a record.
C16_Witness ==
  /\ lastOp = "create" /\ ret = "FILEEXISTS"
  /\ hist.nCreates = 2 /\ hdr.recCnt >= 1 /\ hdr.pageCnt >= 2

\* The slot of the cursor; -1 before the first record of a page.
CursorSlot(rid) == rid.slotNo

\* C17: a scanNext that is inside its loop returns; each iteration that does
\* not return either moves curRec to a later slot of the current page or
\* moves the current page to the next page of the chain.
C17_NextTerminates ==
  /\ InLoop ~> ~InLoop
  /\ [][ (lastOp' = "next" /\ ret' = "LOOP") =>
           \/ /\ curPage' = curPage /\ curPageNo' = curPageNo
              /\ curRec'.pageNo = curPageNo
              /\ CursorSlot(curRec') > CursorSlot(curRec)
           \/ /\ curPage' = pages[curPage].next /\ curPageNo' = curPage'
              /\ curPage' # NOPAGE /\ curRec' = NULLRID
              /\ ChainPos(curPage') = ChainPos(curPage) + 1
     ]_vars

\* A filtered scanNext has skipped a record, crossed to the second data page
\* and is still inside its loop.
C17_Witness ==
  /\ InLoop /\ filter # <<>> /\ hist.openOK
  /\ curPageNo = 3 /\ curRec = NULLRID /\ ChainPos(3) = 2
  /\ LiveSlots(pages[2]) # {}

\* The predicate a scan has stored.
Stored == [offset |-> offset, length |-> length, type |-> type,
           filter |-> filter, op |-> op]

\* Arguments that startScan must refuse when the filter is not null.
BadScanArgs(a) ==
  \/ a.offset < 0
  \/ a.length < 1
  \/ a.type \notin {"STRING", "INTEGER", "FLOAT"}
  \/ (a.type = "INTEGER" /\ a.length # IntSize)
  \/ (a.type = "FLOAT" /\ a.length # FloatSize)
  \/ a.op \notin {"LT", "LTE", "EQ", "GTE", "GT", "NE"}

\* C18: startScan with a filter returns BADSCANPARM for arguments it must
\* refuse and then leaves the stored predicate as it was, and stores the
\* arguments otherwise; startScan with a null filter returns OK and disables
\* filtering, whatever the other arguments are.
C18_StartScanValidation ==
  [][ (lastOp' = "startScan" /\ hist'.arg # <<>>) =>
        LET a == hist'.arg
        IN IF a.filter = <<>>
           THEN ret' = "OK" /\ filter' = <<>>
           ELSE IF BadScanArgs(a)
           THEN ret' = "BADSCANPARM" /\ Stored' = Stored
           ELSE ret' = "OK" /\ Stored' = a
    ]_vars

\* startScan has refused an INTEGER predicate of length 1 on a scan that had
\* stored a predicate before.
C18_Witness ==
  /\ lastOp = "startScan" /\ ret = "BADSCANPARM" /\ hist.nScans = 2
  /\ hist.arg # <<>> /\ hist.arg.type = "INTEGER" /\ hist.arg.length = 1
  /\ hist.arg.offset = 0 /\ hist.arg.op = "GTE"
  /\ filter # <<>> /\ type = "STRING" /\ op = "NE"

\* a o b for two integers and a comparison operator.
Compare(o, a, b) ==
  CASE o = "LT" -> a < b
    [] o = "LTE" -> a <= b
    [] o = "EQ" -> a = b
    [] o = "GTE" -> a >= b
    [] o = "GT" -> a > b
    [] o = "NE" -> a # b

\* C19: for an INTEGER predicate whose window lies inside the record,
\* matchRec answers true exactly when (attribute op filter) holds for the
\* two ints, for every attribute, filter and operator.
C19_IntegerPredicate ==
  [][ (lastOp' = "matchRec" /\ offset + length <= hist'.arg.length) =>
        ((ret' = "MATCH") <=> Compare(op, hist'.arg.attr, filter[1]))
    ]_vars

\* C20: createHeapFile makes as many closeFile calls as openFile calls that
\* succeeded, so it leaves the open count of the file as it found it, and a
\* destroyHeapFile that follows it is not refused because the file is open.
C20_CreateClosesFile ==
  [][ /\ lastOp' = "create" =>
           /\ CountOK(trace', {"openFile"}) = CountOK(trace', {"closeFile"})
           /\ openCnt' = openCnt
      /\ (lastOp = "create" /\ lastOp' = "destroy") => ret' # "FILEOPEN"
    ]_vars

====
